---- MODULE Spec2Model ----
(***************************************************************************)
(* Model of the two request handlers of the repository:                    *)
(*   AgentRouter         src/LambdaCallToAgent.py  (lambda_handler)        *)
(*   CourseQueryService  src/LambdaAction.py       (lambda_handler)        *)
(*                                                                         *)
(* One behaviour is one invocation of one handler.  Text that the code     *)
(* inspects character by character (prompts, streamed chunks, CourseID     *)
(* sort keys) is a sequence of one-character strings; text that the code   *)
(* only compares for equality or passes through is a TLA+ string.          *)
(*                                                                         *)
(* The module globals BEDROCK_AGENT_NAME, BEDROCK_AGENT_ID,                *)
(* BEDROCK_AGENT_ALIAS_ID, BEDROCK_COURSEAGENT_ID and                      *)
(* BEDROCK_COURSEAGENT_ALIAS_ID are read by src/LambdaCallToAgent.py       *)
(* (lines 69, 250, 266-267, 275-276, 387-389, 406-408) but are bound       *)
(* nowhere in it: the lines under "Environment variables with defaults"    *)
(* are blank.  Whether they are bound when the handler runs is the         *)
(* variable agentIdsBound; reading an unbound global raises NameError.     *)
(***************************************************************************)
EXTENDS Integers, Sequences, FiniteSets, TLC

(***************************************************************************)
(* Bounds of the model.                                                    *)
(***************************************************************************)
\* a prompt is the concatenation of at most MaxFragments fragments
MaxFragments == 2
\* at most MaxChunks text chunks are received from one agent stream
MaxChunks == 2
\* the record store holds at most MaxRecords items
MaxRecords == 2
\* an action invocation carries at most MaxParams parameters
MaxParams == 1

(***************************************************************************)
(* Configuration.  MAX_PROMPT_LENGTH is read from the environment          *)
(* (default '4000'); the model runs with the environment setting it to 12  *)
(* so that over-long prompts stay small.                                   *)
(***************************************************************************)
MAX_PROMPT_LENGTH == 12

(***************************************************************************)
(* Text: str.lower, str.strip, len, the `in` substring test, +             *)
(***************************************************************************)
UpperLetters ==
  <<"A","B","C","D","E","F","G","H","I","J","K","L","M",
    "N","O","P","Q","R","S","T","U","V","W","X","Y","Z">>

LowerLetters ==
  <<"a","b","c","d","e","f","g","h","i","j","k","l","m",
    "n","o","p","q","r","s","t","u","v","w","x","y","z">>

\* the characters str.strip() removes from both ends
Whitespace == {" ", "\n", "\t"}

LowerChar(c) ==
  IF \E i \in 1..26 : UpperLetters[i] = c
    THEN LowerLetters[CHOOSE i \in 1..26 : UpperLetters[i] = c]
    ELSE c

\* str.lower()
Lower(s) == [i \in 1..Len(s) |-> LowerChar(s[i])]

\* str.strip()
Strip(s) ==
  LET keep == {i \in 1..Len(s) : s[i] \notin Whitespace}
  IN  IF keep = {} THEN <<>>
      ELSE LET first == CHOOSE i \in keep : \A j \in keep : i <= j
               last  == CHOOSE i \in keep : \A j \in keep : j <= i
           IN  SubSeq(s, first, last)

\* k in s  (substring test)
Contains(s, k) ==
  \E i \in 1..(Len(s) - Len(k) + 1) : SubSeq(s, i, i + Len(k) - 1) = k

\* any(k in s for k in keywords), scanning the list in order
RECURSIVE AnyKeywordIn(_, _, _)
AnyKeywordIn(keywords, s, i) ==
  IF i > Len(keywords) THEN FALSE
  ELSE IF Contains(s, keywords[i]) THEN TRUE
  ELSE AnyKeywordIn(keywords, s, i + 1)

(***************************************************************************)
(* Keyword tables of src/LambdaCallToAgent.py, in source order.            *)
(***************************************************************************)
non_technical_keywords ==
  <<
    <<"c", "o", "o", "k">>,
    <<"r", "e", "c", "i", "p", "e">>,
    <<"f", "o", "o", "d">>,
    <<"m", "e", "a", "l">>,
    <<"k", "i", "t", "c", "h", "e", "n">>,
    <<"b", "a", "k", "e">>,
    <<"i", "n", "g", "r", "e", "d", "i", "e", "n", "t">>,
    <<"d", "a", "t", "i", "n", "g">>,
    <<"r", "e", "l", "a", "t", "i", "o", "n", "s", "h", "i", "p">>,
    <<"l", "o", "v", "e">>,
    <<"r", "o", "m", "a", "n", "c", "e">>,
    <<"m", "a", "r", "r", "i", "a", "g", "e">>,
    <<"m", "e", "d", "i", "c", "a", "l">>,
    <<"h", "e", "a", "l", "t", "h">>,
    <<"d", "o", "c", "t", "o", "r">>,
    <<"m", "e", "d", "i", "c", "i", "n", "e">>,
    <<"s", "y", "m", "p", "t", "o", "m">>,
    <<"d", "i", "s", "e", "a", "s", "e">>,
    <<"l", "e", "g", "a", "l">>,
    <<"l", "a", "w", "y", "e", "r">>,
    <<"l", "a", "w">>,
    <<"c", "o", "u", "r", "t">>,
    <<"l", "a", "w", "s", "u", "i", "t">>,
    <<"i", "n", "v", "e", "s", "t", "m", "e", "n", "t">>,
    <<"s", "t", "o", "c", "k">>,
    <<"c", "r", "y", "p", "t", "o">>,
    <<"b", "i", "t", "c", "o", "i", "n">>,
    <<"t", "r", "a", "d", "i", "n", "g">>,
    <<"w", "e", "a", "t", "h", "e", "r">>,
    <<"s", "p", "o", "r", "t", "s">>,
    <<"g", "a", "m", "e">>,
    <<"m", "o", "v", "i", "e">>,
    <<"m", "u", "s", "i", "c">>,
    <<"e", "n", "t", "e", "r", "t", "a", "i", "n", "m", "e", "n", "t">>,
    <<"t", "r", "a", "v", "e", "l">>,
    <<"v", "a", "c", "a", "t", "i", "o", "n">>,
    <<"h", "o", "t", "e", "l">>,
    <<"f", "l", "i", "g", "h", "t">>,
    <<"s", "h", "o", "p", "p", "i", "n", "g">>,
    <<"f", "a", "s", "h", "i", "o", "n">>,
    <<"c", "l", "o", "t", "h", "e", "s">>,
    <<"s", "t", "y", "l", "e">>
  >>

technical_keywords ==
  <<
    <<"c", "o", "o", "k">>,
    <<"r", "e", "c", "i", "p", "e">>,
    <<"f", "o", "o", "d">>,
    <<"m", "e", "a", "l">>,
    <<"k", "i", "t", "c", "h", "e", "n">>,
    <<"b", "a", "k", "e">>,
    <<"i", "n", "g", "r", "e", "d", "i", "e", "n", "t">>,
    <<"d", "a", "t", "i", "n", "g">>,
    <<"r", "e", "l", "a", "t", "i", "o", "n", "s", "h", "i", "p">>,
    <<"l", "o", "v", "e">>,
    <<"r", "o", "m", "a", "n", "c", "e">>,
    <<"m", "a", "r", "r", "i", "a", "g", "e">>,
    <<"m", "e", "d", "i", "c", "a", "l">>,
    <<"h", "e", "a", "l", "t", "h">>,
    <<"d", "o", "c", "t", "o", "r">>,
    <<"m", "e", "d", "i", "c", "i", "n", "e">>,
    <<"s", "y", "m", "p", "t", "o", "m">>,
    <<"d", "i", "s", "e", "a", "s", "e">>,
    <<"l", "e", "g", "a", "l">>,
    <<"l", "a", "w", "y", "e", "r">>,
    <<"l", "a", "w">>,
    <<"c", "o", "u", "r", "t">>,
    <<"l", "a", "w", "s", "u", "i", "t">>,
    <<"i", "n", "v", "e", "s", "t", "m", "e", "n", "t">>,
    <<"s", "t", "o", "c", "k">>,
    <<"c", "r", "y", "p", "t", "o">>,
    <<"b", "i", "t", "c", "o", "i", "n">>,
    <<"t", "r", "a", "d", "i", "n", "g">>,
    <<"w", "e", "a", "t", "h", "e", "r">>,
    <<"s", "p", "o", "r", "t", "s">>,
    <<"g", "a", "m", "e">>,
    <<"m", "o", "v", "i", "e">>,
    <<"m", "u", "s", "i", "c">>,
    <<"e", "n", "t", "e", "r", "t", "a", "i", "n", "m", "e", "n", "t">>,
    <<"t", "r", "a", "v", "e", "l">>,
    <<"v", "a", "c", "a", "t", "i", "o", "n">>,
    <<"h", "o", "t", "e", "l">>,
    <<"f", "l", "i", "g", "h", "t">>,
    <<"s", "h", "o", "p", "p", "i", "n", "g">>,
    <<"f", "a", "s", "h", "i", "o", "n">>,
    <<"c", "l", "o", "t", "h", "e", "s">>,
    <<"s", "t", "y", "l", "e">>
  >>

harmful_patterns ==
  <<
    <<"<", "s", "c", "r", "i", "p", "t">>,
    <<"j", "a", "v", "a", "s", "c", "r", "i", "p", "t", ":">>,
    <<"d", "a", "t", "a", ":">>,
    <<"v", "b", "s", "c", "r", "i", "p", "t", ":">>
  >>

mycourse_keywords ==
  <<
    <<"m", "y", " ", "c", "o", "u", "r", "s", "e">>,
    <<"m", "y", " ", "a", "l", "l", " ", "c", "o", "u", "r", "s", "e">>,
    <<"m", "y", " ", "c", "o", "m", "p", "l", "e", "t", "e", "d", " ", "c", "o", "u", "r", "s", "e">>,
    <<"m", "y", " ", "i", "n", " ", "p", "r", "o", "g", "r", "e", "s", "s", " ", "c", "o", "u", "r", "s", "e">>,
    <<"m", "y", " ", "o", "n", "g", "o", "i", "n", "g", " ", "c", "o", "u", "r", "s", "e">>,
    <<"a", "l", "l", " ", "m", "y", " ", "c", "o", "u", "r", "s", "e">>,
    <<"m", "y", " ", "c", "o", "u", "r", "s", "e", " ", "l", "i", "s", "t">>
  >>

(***************************************************************************)
(* AgentRouter: pure functions of src/LambdaCallToAgent.py                 *)
(***************************************************************************)

\* is_technical_query with the two keyword loops in the opposite order
is_technical_query_technical_first(prompt) ==
  LET prompt_lower == Lower(prompt)
  IN  IF AnyKeywordIn(technical_keywords, prompt_lower, 1) THEN TRUE
      ELSE IF AnyKeywordIn(non_technical_keywords, prompt_lower, 1) THEN FALSE
      ELSE TRUE

\* is_technical_query: the non-technical loop runs first and returns False
\* on its first hit; then the technical loop; then the default True
is_technical_query(prompt) ==
  LET prompt_lower == Lower(prompt)
  IN  IF AnyKeywordIn(non_technical_keywords, prompt_lower, 1) THEN FALSE
      ELSE IF AnyKeywordIn(technical_keywords, prompt_lower, 1) THEN TRUE
      ELSE TRUE

\* the topic label chosen by generate_off_topic_response (if / elif chain)
off_topic_label(prompt) ==
  LET p == Lower(prompt)
      has(k) == Contains(p, k)
  IN  IF has(<<"c","o","o","k">>) \/ has(<<"r","e","c","i","p","e">>)
         \/ has(<<"f","o","o","d">>)
        THEN <<"c","o","o","k","i","n","g">>
      ELSE IF has(<<"d","a","t","i","n","g">>)
         \/ has(<<"r","e","l","a","t","i","o","n","s","h","i","p">>)
        THEN <<"r","e","l","a","t","i","o","n","s","h","i","p","s">>
      ELSE IF has(<<"h","e","a","l","t","h">>)
         \/ has(<<"m","e","d","i","c","a","l">>)
        THEN <<"h","e","a","l","t","h"," ","a","d","v","i","c","e">>
      ELSE IF has(<<"l","e","g","a","l">>) \/ has(<<"l","a","w">>)
        THEN <<"l","e","g","a","l"," ","a","d","v","i","c","e">>
      ELSE IF has(<<"i","n","v","e","s","t","m","e","n","t">>)
         \/ has(<<"s","t","o","c","k">>)
        THEN <<"i","n","v","e","s","t","m","e","n","t"," ","a","d","v","i","c","e">>
      ELSE IF has(<<"w","e","a","t","h","e","r">>)
        THEN <<"w","e","a","t","h","e","r">>
      ELSE IF has(<<"s","p","o","r","t","s">>) \/ has(<<"g","a","m","e">>)
        THEN <<"s","p","o","r","t","s"," ","o","r"," ","g","a","m","e","s">>
      ELSE <<"t","h","a","t"," ","t","o","p","i","c">>

\* generate_off_topic_response: the template around the label, cut down to
\* the clause that carries it ("... I can't help with {topic}, but ...")
generate_off_topic_response(prompt) ==
  <<"I"," ","c","a","n","'","t"," ","h","e","l","p"," ","w","i","t","h"," ">>
    \o off_topic_label(prompt) \o <<",", " ", "b", "u", "t">>

\* get_fallback_response: the fixed message, cut down to its opening words
get_fallback_response == <<"I"," ","a","p","o","l","o","g","i","z","e">>

\* the value None where a parsed body is expected
NoBody ==
  [type |-> "none", truthy |-> FALSE, hasPrompt |-> FALSE,
   promptIsStr |-> FALSE, prompt |-> <<>>, sessionId |-> "absent"]

\* parse_request_body.  bodyKey tells what event['body'] is: "absent" (no
\* such key), "falsy" (None or ''), "badjson" (json.loads raises
\* JSONDecodeError), "nonstr" (json.loads raises TypeError), "json" (parses
\* to event.payload).  With no 'body' key the Function-URL branch always
\* finds event.get('body') None; otherwise an event carrying 'prompt' is
\* its own body.
parse_request_body(ev) ==
  IF ev.bodyKey # "absent"
    THEN IF ev.bodyKey = "json" THEN ev.payload ELSE NoBody
  ELSE IF ev.httpCtx THEN NoBody
  ELSE IF ev.promptKey THEN ev.payload
  ELSE NoBody

\* validate_request.  'prompt' not in body raises TypeError for a number,
\* tests membership for a list and substring for a str; body['prompt']
\* raises TypeError for a list or str; .strip() raises AttributeError for a
\* prompt that is no str.
validate_request(body) ==
  IF ~body.truthy
    THEN [raised |-> FALSE, valid |-> FALSE, message |-> "Request body is required"]
  ELSE IF body.type \in {"number"}
    THEN [raised |-> TRUE, valid |-> FALSE, message |-> "TypeError"]
  ELSE IF ~body.hasPrompt
    THEN [raised |-> FALSE, valid |-> FALSE, message |-> "Prompt is required"]
  ELSE IF body.type # "object"
    THEN [raised |-> TRUE, valid |-> FALSE, message |-> "TypeError"]
  ELSE IF ~body.promptIsStr
    THEN [raised |-> TRUE, valid |-> FALSE, message |-> "AttributeError"]
  ELSE LET prompt == Strip(body.prompt)
       IN  IF prompt = <<>>
             THEN [raised |-> FALSE, valid |-> FALSE, message |-> "Prompt cannot be empty"]
           ELSE IF Len(prompt) > MAX_PROMPT_LENGTH
             THEN [raised |-> FALSE, valid |-> FALSE, message |-> "Prompt too long"]
           ELSE IF AnyKeywordIn(harmful_patterns, Lower(prompt), 1)
             THEN [raised |-> FALSE, valid |-> FALSE,
                   message |-> "Invalid content detected in prompt"]
           ELSE [raised |-> FALSE, valid |-> TRUE, message |-> ""]

\* the value of `response` before the handler has returned
NoResponse ==
  [statusCode |-> 0, status |-> "none", message |-> "", error |-> "",
   response |-> <<>>, sessionId |-> "none"]

\* the CORS preflight return of lambda_handler
preflight_response ==
  [statusCode |-> 200, status |-> "none", message |-> "CORS preflight successful",
   error |-> "", response |-> <<>>, sessionId |-> "none"]

\* create_success_response
create_success_response(message, session_id) ==
  [statusCode |-> 200, status |-> "success", message |-> "", error |-> "",
   response |-> message, sessionId |-> session_id]

\* create_error_response of the AgentRouter
router_create_error_response(error_message, status_code) ==
  [statusCode |-> status_code, status |-> "error", message |-> "",
   error |-> error_message, response |-> <<>>, sessionId |-> "none"]

\* the agent choice testing the prompt as typed, not lower-cased
select_agent_case_sensitive(prompt) ==
  IF AnyKeywordIn(mycourse_keywords, prompt, 1) THEN "course" ELSE "general"

\* the agent identity generate_ai_response_with_agent invokes
select_agent(prompt) ==
  IF AnyKeywordIn(mycourse_keywords, Lower(prompt), 1) THEN "course" ELSE "general"

\* the tail of generate_ai_response_with_agent without the emptiness test
finish_stream_no_fallback(ai_response) == Strip(ai_response)

\* the tail of generate_ai_response_with_agent after the stream loop:
\* fallback for an empty or whitespace-only text, else the trimmed text
finish_stream(ai_response) ==
  IF Strip(ai_response) = <<>> THEN get_fallback_response ELSE Strip(ai_response)

(***************************************************************************)
(* State                                                                   *)
(***************************************************************************)
VARIABLES
  handler,          \* "router" or "course": the handler this invocation runs
  pc,               \* the handler's position
  outcome,          \* "pending", "returned", or "raised" (exception escaped)
  \* ---- AgentRouter (src/LambdaCallToAgent.py)
  event,            \* the event passed to lambda_handler
  agentIdsBound,    \* are the BEDROCK_* module globals bound
  parseCalled,      \* parse_request_body has been called
  validateCalled,   \* validate_request has been called
  classifyCalled,   \* is_technical_query has been called
  body,             \* lambda_handler's local `body`
  prompt,           \* lambda_handler's local `prompt`
  session_id,       \* lambda_handler's local `session_id`
  technical,        \* the value is_technical_query returned
  invoked,          \* the agent identities invoke_agent was called with, in order
  agentError,       \* what invoke_agent raised ("none" if it returned)
  ai_response,      \* generate_ai_response_with_agent's accumulator
  chunks,           \* the decoded text chunks received so far, in order
  sawTrace,         \* a 'trace' event was received
  sawReturnControl, \* a 'returnControl' event was received
  streamRaised,     \* iterating the event stream raised
  genReturned,      \* generate_ai_response_with_agent has returned
  genResult,        \* the text it returned
  response,         \* the response lambda_handler returned
  \* ---- CourseQueryService (src/LambdaAction.py)
  cevent,           \* the event passed to lambda_handler
  store,            \* the MyCourses table: its items in scan order
  connectFailed,    \* boto3.resource / dynamodb.Table raised
  opCalled,         \* the query function lambda_handler routed to
  scanFilter,       \* the state the scans filter on (get_courses_by_state)
  scanResponse,     \* the last table.scan response
  scanLog,          \* every table.scan call so far: its arguments and response
  courses,          \* the local list `courses` of the scanning function
  gets,             \* number of table.get_item calls
  faulted,          \* a call on the table raised
  envelope          \* the envelope lambda_handler returned

sharedVars == <<handler, pc, outcome>>

routerVars ==
  <<event, agentIdsBound, parseCalled, validateCalled, classifyCalled, body,
    prompt, session_id, technical, invoked, agentError, ai_response, chunks,
    sawTrace, sawReturnControl, streamRaised, genReturned, genResult, response>>

courseVars ==
  <<cevent, store, connectFailed, opCalled, scanFilter, scanResponse, scanLog,
    courses, gets, faulted, envelope>>

vars == <<sharedVars, routerVars, courseVars>>

(***************************************************************************)
(* AgentRouter: the events the model feeds the handler                     *)
(***************************************************************************)
\* the pieces prompts are built from
Fragments ==
  { <<" ">>,
    <<"C","o","o","k">>,
    <<"c","o","d","e">>,
    <<"h","i">>,
    <<"M","y"," ","C","o","u","r","s","e">>,
    <<"<","S","c","r","i","p","t">>,
    <<"l","a","w">>,
    <<"x","x","x","x","x","x","x","x">> }

RECURSIVE PromptsUpTo(_)
PromptsUpTo(n) ==
  IF n = 0 THEN {<<>>}
  ELSE LET shorter == PromptsUpTo(n - 1)
       IN  shorter \cup {p \o f : p \in shorter, f \in Fragments}

Prompts == PromptsUpTo(MaxFragments)

\* a JSON object carrying a string prompt
PromptBody(p, s) ==
  [type |-> "object", truthy |-> TRUE, hasPrompt |-> TRUE, promptIsStr |-> TRUE,
   prompt |-> p, sessionId |-> s]

\* bodies that are no object with a string prompt: {} / [] / 0 / "" (falsy),
\* {"x": 1}, {"prompt": 5}, 5, ["a"], ["prompt"], "abc", "prompt"
OddBodies ==
  { [type |-> t, truthy |-> FALSE, hasPrompt |-> FALSE, promptIsStr |-> FALSE,
     prompt |-> <<>>, sessionId |-> "absent"] : t \in {"object", "array", "string", "number"} }
  \cup
  { [type |-> t, truthy |-> TRUE, hasPrompt |-> h, promptIsStr |-> FALSE,
     prompt |-> <<>>, sessionId |-> "absent"] :
       t \in {"object", "array", "string"}, h \in BOOLEAN }
  \cup
  { [type |-> "number", truthy |-> TRUE, hasPrompt |-> FALSE, promptIsStr |-> FALSE,
     prompt |-> <<>>, sessionId |-> "absent"] }

RouterEvent(isDict, method, bodyKey, httpCtx, promptKey, payload) ==
  [isDict |-> isDict, httpMethod |-> method, bodyKey |-> bodyKey,
   httpCtx |-> httpCtx, promptKey |-> promptKey, payload |-> payload]

RouterEvents ==
  \* API Gateway requests and direct invocations carrying a string prompt
  { RouterEvent(TRUE, "POST", "json", FALSE, FALSE, PromptBody(p, "absent")) :
      p \in Prompts }
  \cup
  { RouterEvent(TRUE, "POST", k, FALSE, k = "absent", PromptBody(p, s)) :
      k \in {"json", "absent"}, p \in PromptsUpTo(1), s \in {"absent", "s1"} }
  \cup
  \* preflight requests, with and without a body
  { RouterEvent(TRUE, "OPTIONS", k, FALSE, FALSE, PromptBody(p, "absent")) :
      k \in {"json", "badjson", "absent"}, p \in PromptsUpTo(1) }
  \cup
  \* bodies that are absent, empty or unparseable
  { RouterEvent(TRUE, m, k, c, FALSE, NoBody) :
      m \in {"POST", "absent"}, k \in {"falsy", "badjson", "nonstr", "absent"},
      c \in BOOLEAN }
  \cup
  \* bodies that parse to something else than an object with a string prompt
  { RouterEvent(TRUE, "POST", "json", FALSE, FALSE, b) : b \in OddBodies }
  \cup
  \* a direct invocation whose 'prompt' is no string
  { RouterEvent(TRUE, "absent", "absent", FALSE, TRUE,
      [type |-> "object", truthy |-> TRUE, hasPrompt |-> TRUE,
       promptIsStr |-> FALSE, prompt |-> <<>>, sessionId |-> "absent"]) }
  \cup
  \* an event that is no JSON object (event.get raises AttributeError)
  { RouterEvent(FALSE, "absent", "absent", FALSE, FALSE, NoBody) }

NoRouterEvent == RouterEvent(FALSE, "none", "absent", FALSE, FALSE, NoBody)

\* the error codes generate_ai_response_with_agent tells apart, and one more
ClientErrorCodes ==
  {"ThrottlingException", "ValidationException", "AccessDeniedException",
   "ResourceNotFoundException", "ServiceQuotaExceededException",
   "ConflictException", "DependencyFailedException", "InternalServerException"}

\* the decoded payloads of the text chunks the agent may stream
ChunkTexts == { <<" ">>, <<"o","k">>, <<"a"," ">> }

RouterInit ==
  /\ handler = "router"
  /\ pc = "start"
  /\ outcome = "pending"
  /\ event \in RouterEvents
  /\ agentIdsBound \in BOOLEAN
  /\ parseCalled = FALSE
  /\ validateCalled = FALSE
  /\ classifyCalled = FALSE
  /\ body = NoBody
  /\ prompt = <<>>
  /\ session_id = "none"
  /\ technical = FALSE
  /\ invoked = <<>>
  /\ agentError = "none"
  /\ ai_response = <<>>
  /\ chunks = <<>>
  /\ sawTrace = FALSE
  /\ sawReturnControl = FALSE
  /\ streamRaised = FALSE
  /\ genReturned = FALSE
  /\ genResult = <<>>
  /\ response = NoResponse

(***************************************************************************)
(* AgentRouter: lambda_handler, src/LambdaCallToAgent.py lines 31-94       *)
(***************************************************************************)
\* `return resp` from lambda_handler
RouterReturn(resp) ==
  /\ response' = resp
  /\ outcome' = "returned"
  /\ pc' = "done"

\* an exception leaves lambda_handler
RouterRaise ==
  /\ response' = NoResponse
  /\ outcome' = "raised"
  /\ pc' = "done"

\* `return create_..._response(...)` inside the try block.  Both builders
\* read BEDROCK_AGENT_NAME: unbound, the read raises NameError, the handler's
\* except clause calls create_error_response, which raises it again, and
\* that one escapes.
RouterExit(resp) ==
  IF agentIdsBound THEN RouterReturn(resp) ELSE RouterRaise

\* the except clause of lambda_handler (lines 87-94)
RouterCaught ==
  RouterExit(router_create_error_response(
    "An unexpected error occurred. Please try again later.", 500))

\* the OPTIONS test of line 49 switched off
is_preflight_never(ev) == FALSE

\* line 49: event.get('httpMethod') == 'OPTIONS'
is_preflight(ev) == ev.httpMethod = "OPTIONS"

\* line 49 on an event that is no dict: event.get raises AttributeError
RouterBadEvent ==
  /\ handler = "router" /\ pc = "start"
  /\ ~event.isDict
  /\ RouterCaught
  /\ UNCHANGED <<handler, event, agentIdsBound, parseCalled, validateCalled,
                 classifyCalled, body, prompt, session_id, technical, invoked,
                 agentError, ai_response, chunks, sawTrace, sawReturnControl,
                 streamRaised, genReturned, genResult>>
  /\ UNCHANGED courseVars

\* lines 48-54: the preflight short-circuit
RouterPreflight ==
  /\ handler = "router" /\ pc = "start"
  /\ event.isDict
  /\ is_preflight(event)
  /\ RouterReturn(preflight_response)
  /\ UNCHANGED <<handler, event, agentIdsBound, parseCalled, validateCalled,
                 classifyCalled, body, prompt, session_id, technical, invoked,
                 agentError, ai_response, chunks, sawTrace, sawReturnControl,
                 streamRaised, genReturned, genResult>>
  /\ UNCHANGED courseVars

\* lines 56-59: parse the body; a falsy body is answered with 400
RouterParse ==
  /\ handler = "router" /\ pc = "start"
  /\ event.isDict
  /\ ~is_preflight(event)
  /\ parseCalled' = TRUE
  /\ body' = parse_request_body(event)
  /\ IF ~body'.truthy
       THEN RouterExit(router_create_error_response("Invalid request format", 400))
       ELSE /\ pc' = "validate"
            /\ UNCHANGED <<response, outcome>>
  /\ UNCHANGED <<handler, event, agentIdsBound, validateCalled, classifyCalled,
                 prompt, session_id, technical, invoked, agentError, ai_response,
                 chunks, sawTrace, sawReturnControl, streamRaised, genReturned,
                 genResult>>
  /\ UNCHANGED courseVars

\* lines 61-64: validate the body
RouterValidate ==
  /\ handler = "router" /\ pc = "validate"
  /\ validateCalled' = TRUE
  /\ LET v == validate_request(body)
     IN  IF v.raised THEN RouterCaught
         ELSE IF ~v.valid
           THEN RouterExit(router_create_error_response(v.message, 400))
         ELSE /\ pc' = "classify"
              /\ UNCHANGED <<response, outcome>>
  /\ UNCHANGED <<handler, event, agentIdsBound, parseCalled, classifyCalled, body,
                 prompt, session_id, technical, invoked, agentError, ai_response,
                 chunks, sawTrace, sawReturnControl, streamRaised, genReturned,
                 genResult>>
  /\ UNCHANGED courseVars

\* lines 66-76: prompt and session id, the log line that reads
\* BEDROCK_AGENT_NAME, the topic gate and the off-topic answer
RouterClassify ==
  /\ handler = "router" /\ pc = "classify"
  /\ prompt' = Strip(body.prompt)
  /\ session_id' = IF body.sessionId = "absent" THEN "generated" ELSE body.sessionId
  /\ IF ~agentIdsBound
       THEN /\ RouterRaise
            /\ UNCHANGED <<classifyCalled, technical>>
       ELSE /\ classifyCalled' = TRUE
            /\ technical' = is_technical_query(prompt')
            /\ IF ~technical'
                 THEN RouterReturn(create_success_response(
                        generate_off_topic_response(prompt'), session_id'))
                 ELSE /\ pc' = "invoke"
                      /\ UNCHANGED <<response, outcome>>
  /\ UNCHANGED <<handler, event, agentIdsBound, parseCalled, validateCalled, body,
                 invoked, agentError, ai_response, chunks, sawTrace,
                 sawReturnControl, streamRaised, genReturned, genResult>>
  /\ UNCHANGED courseVars

\* the ClientError clause answering a throttled invocation with no text
on_client_error_throttling_empty(error_code) ==
  IF error_code = "ThrottlingException" THEN <<>> ELSE get_fallback_response

\* lines 320-338: the ClientError clause reads the error code, logs a
\* message chosen by the code, and returns get_fallback_response()
on_client_error(error_code) ==
  IF error_code \in {"ThrottlingException", "ValidationException",
                     "AccessDeniedException", "ResourceNotFoundException",
                     "ServiceQuotaExceededException", "ConflictException",
                     "DependencyFailedException"}
    THEN get_fallback_response
    ELSE get_fallback_response

\* generate_ai_response_with_agent returns `text`; lambda_handler wraps it
\* in create_success_response and returns (lines 79-85)
GenReturn(text) ==
  /\ genReturned' = TRUE
  /\ genResult' = text
  /\ RouterReturn(create_success_response(text, session_id))

\* lines 249-286 and 320-342: pick the agent and call invoke_agent, which
\* returns an event stream or raises; every raise is answered with the
\* fallback text
RouterInvoke ==
  /\ handler = "router" /\ pc = "invoke"
  /\ invoked' = Append(invoked, select_agent(prompt))
  /\ \E raised \in {"none", "Exception"} \cup ClientErrorCodes :
       /\ agentError' = raised
       /\ IF raised = "none"
            THEN /\ pc' = "stream"
                 /\ UNCHANGED <<genReturned, genResult, response, outcome>>
            ELSE IF raised \in ClientErrorCodes
              THEN GenReturn(on_client_error(raised))
            ELSE \* lines 340-342: any other exception
                 GenReturn(get_fallback_response)
  /\ ai_response' = <<>>
  /\ UNCHANGED <<handler, event, agentIdsBound, parseCalled, validateCalled,
                 classifyCalled, body, prompt, session_id, technical, chunks,
                 sawTrace, sawReturnControl, streamRaised>>
  /\ UNCHANGED courseVars

\* `ai_response += chunk_text` with the operands swapped
accumulate_reversed(acc, chunk_text) == chunk_text \o acc

\* line 295: ai_response += chunk_text
accumulate(acc, chunk_text) == acc \o chunk_text

\* lines 289-295: a 'chunk' event whose bytes decode to `text`
RouterStreamChunk ==
  /\ handler = "router" /\ pc = "stream"
  /\ Len(chunks) < MaxChunks
  /\ \E text \in ChunkTexts :
       /\ ai_response' = accumulate(ai_response, text)
       /\ chunks' = Append(chunks, text)
  /\ UNCHANGED <<sharedVars, event, agentIdsBound, parseCalled, validateCalled,
                 classifyCalled, body, prompt, session_id, technical, invoked,
                 agentError, sawTrace, sawReturnControl, streamRaised,
                 genReturned, genResult, response>>
  /\ UNCHANGED courseVars

\* lines 290-303: an event that carries no text: 'trace', 'returnControl',
\* a 'chunk' without 'bytes', or an event of another kind
RouterStreamOther ==
  /\ handler = "router" /\ pc = "stream"
  /\ \E kind \in {"trace", "returnControl", "chunkWithoutBytes", "other"} :
       /\ sawTrace' = (sawTrace \/ kind = "trace")
       /\ sawReturnControl' = (sawReturnControl \/ kind = "returnControl")
  /\ UNCHANGED <<sharedVars, event, agentIdsBound, parseCalled, validateCalled,
                 classifyCalled, body, prompt, session_id, technical, invoked,
                 agentError, ai_response, chunks, streamRaised, genReturned,
                 genResult, response>>
  /\ UNCHANGED courseVars

\* lines 305-318: iterating the stream (or decoding a chunk) raises; with
\* no usable partial text the fallback is returned at once, otherwise
\* control falls through to the code after the loop
RouterStreamRaise ==
  /\ handler = "router" /\ pc = "stream"
  /\ streamRaised' = TRUE
  /\ IF Strip(ai_response) # <<>>
       THEN GenReturn(finish_stream(ai_response))
       ELSE GenReturn(get_fallback_response)
  /\ UNCHANGED <<handler, event, agentIdsBound, parseCalled, validateCalled,
                 classifyCalled, body, prompt, session_id, technical, invoked,
                 agentError, ai_response, chunks, sawTrace, sawReturnControl>>
  /\ UNCHANGED courseVars

\* lines 313-318: the stream is exhausted
RouterStreamEnd ==
  /\ handler = "router" /\ pc = "stream"
  /\ GenReturn(finish_stream(ai_response))
  /\ UNCHANGED <<handler, event, agentIdsBound, parseCalled, validateCalled,
                 classifyCalled, body, prompt, session_id, technical, invoked,
                 agentError, ai_response, chunks, sawTrace, sawReturnControl,
                 streamRaised>>
  /\ UNCHANGED courseVars

RouterNext ==
  \/ RouterBadEvent
  \/ RouterPreflight
  \/ RouterParse
  \/ RouterValidate
  \/ RouterClassify
  \/ RouterInvoke
  \/ RouterStreamChunk
  \/ RouterStreamOther
  \/ RouterStreamRaise
  \/ RouterStreamEnd

(***************************************************************************)
(* CourseQueryService: data                                                *)
(***************************************************************************)
Completed  == <<"C","o","m","p","l","e","t","e","d">>
InProgress == <<"I","n"," ","P","r","o","g","r","e","s","s">>
NotStarted == <<"N","o","t"," ","S","t","a","r","t","e","d">>
Archived   == <<"A","r","c","h","i","v","e","d">>

\* the items the table may hold.  CourseID is the table's key and is always
\* present; `fields` names the other attributes the item carries.  Duration
\* is a Decimal in the table.
Catalogue ==
  { [CourseID |-> <<"C","1","0">>,
     fields |-> {"Course Name", "Duration (hours)", "State"},
     name |-> "AWS Basics", duration |-> 10, state |-> Completed],
    [CourseID |-> <<"C","2">>,
     fields |-> {"State"},
     name |-> "", duration |-> 0, state |-> InProgress],
    [CourseID |-> <<"C","3">>,
     fields |-> {"Course Name", "Duration (hours)"},
     name |-> "Python", duration |-> 4, state |-> <<>>] }

RECURSIVE StoresUpTo(_)
StoresUpTo(n) ==
  IF n = 0 THEN {<<>>}
  ELSE LET smaller == StoresUpTo(n - 1)
       IN  smaller \cup
           UNION { { Append(s, it) :
                       it \in {c \in Catalogue :
                                 \A i \in 1..Len(s) : s[i].CourseID # c.CourseID} } :
                   s \in smaller }

Stores == StoresUpTo(MaxRecords)

\* one element of event['parameters']; ok = FALSE is an element without a
\* 'name' or 'value' key
ParamOptions ==
  { [ok |-> TRUE, name |-> "state", value |-> v] : v \in {<<>>, Completed, Archived} }
  \cup
  { [ok |-> TRUE, name |-> "courseId", value |-> v] :
      v \in {<<>>, <<"C","1","0">>, <<"C","9">>} }
  \cup
  { [ok |-> FALSE, name |-> "", value |-> <<>>] }

RECURSIVE ParamSeqsUpTo(_)
ParamSeqsUpTo(n) ==
  IF n = 0 THEN {<<>>}
  ELSE LET shorter == ParamSeqsUpTo(n - 1)
       IN  shorter \cup {Append(ps, q) : ps \in shorter, q \in ParamOptions}

\* the six supported paths, in the order lambda_handler lists them
availablePaths ==
  <<"/getAllCourses", "/getCoursesByState", "/getCourseDetails",
    "/getCompletedCourses", "/getInProgressCourses", "/getNotStartedCourses">>

SupportedPaths == {availablePaths[i] : i \in 1..Len(availablePaths)}

\* apiPath "" stands for an event without the key (event.get('apiPath', ''))
CourseEvents ==
  { [isDict |-> TRUE, apiPath |-> a, parameters |-> ps] :
      a \in SupportedPaths \cup {"/deleteCourse", ""},
      ps \in ParamSeqsUpTo(MaxParams) }
  \cup
  { [isDict |-> FALSE, apiPath |-> "", parameters |-> <<>>] }

NoCourseEvent == [isDict |-> FALSE, apiPath |-> "none", parameters |-> <<>>]

\* the dict `params` built by lines 36-38: a later element overwrites an
\* earlier one of the same name
RECURSIVE build_params(_, _, _)
build_params(parameters, i, acc) ==
  IF i > Len(parameters) THEN acc
  ELSE LET q == parameters[i]
       IN  IF ~q.ok THEN [acc EXCEPT !.raised = TRUE]
           ELSE IF q.name = "state"
             THEN build_params(parameters, i + 1,
                    [acc EXCEPT !.hasState = TRUE, !.state = q.value])
           ELSE IF q.name = "courseId"
             THEN build_params(parameters, i + 1,
                    [acc EXCEPT !.hasCourseId = TRUE, !.courseId = q.value])
           ELSE build_params(parameters, i + 1, acc)

EmptyParams ==
  [raised |-> FALSE, hasState |-> FALSE, state |-> <<>>,
   hasCourseId |-> FALSE, courseId |-> <<>>]

\* {'state': s}, the params of the three fixed-state paths
StateParams(s) == [EmptyParams EXCEPT !.hasState = TRUE, !.state = s]

(***************************************************************************)
(* CourseQueryService: normalisation and ordering                          *)
(***************************************************************************)
\* code points of the characters CourseIDs are made of, in ascending order
CodePointOrder == <<"0","1","2","3","4","5","6","7","8","9","C","x">>

Ord(c) == CHOOSE i \in 1..Len(CodePointOrder) : CodePointOrder[i] = c

\* Python's a < b on str: lexicographic by code point
RECURSIVE StrLess(_, _)
StrLess(a, b) ==
  IF b = <<>> THEN FALSE
  ELSE IF a = <<>> THEN TRUE
  ELSE IF Ord(Head(a)) < Ord(Head(b)) THEN TRUE
  ELSE IF Ord(Head(a)) > Ord(Head(b)) THEN FALSE
  ELSE StrLess(Tail(a), Tail(b))

\* convert_decimals on one attribute value: Decimal becomes float
convert_decimals(v) == [kind |-> "float", v |-> v]

\* the '' that course.get(..., '') yields for a missing Duration
NoDuration == [kind |-> "str", v |-> 0]

\* the four-field dict lines 110-115 / 173-178 / 232-237 build
normalize(item) ==
  [CourseID   |-> item.CourseID,
   CourseName |-> IF "Course Name" \in item.fields THEN item.name ELSE "",
   Duration   |-> IF "Duration (hours)" \in item.fields
                    THEN convert_decimals(item.duration) ELSE NoDuration,
   State      |-> IF "State" \in item.fields THEN item.state ELSE <<>>]

normalize_all(items) == [i \in 1..Len(items) |-> normalize(items[i])]

\* insert x into the sorted list s after every element that is not greater
RECURSIVE InsertSorted(_, _)
InsertSorted(s, x) ==
  IF s = <<>> THEN <<x>>
  ELSE IF StrLess(x.CourseID, Head(s).CourseID) THEN <<x>> \o s
  ELSE <<Head(s)>> \o InsertSorted(Tail(s), x)

\* the list left in the order the scan returned it
sort_by_course_id_skipped(s) == s

\* list.sort(key=lambda x: x.get('CourseID', '')): stable, ascending
RECURSIVE sort_by_course_id(_)
sort_by_course_id(s) ==
  IF s = <<>> THEN <<>>
  ELSE InsertSorted(sort_by_course_id(SubSeq(s, 1, Len(s) - 1)), s[Len(s)])

(***************************************************************************)
(* CourseQueryService: results and envelopes                               *)
(***************************************************************************)
\* A result dict.  `keys` names the keys it carries ("data.x" is key x of
\* its 'data' dict); a field whose key is absent holds a filler value.
Result(success, error, keys) ==
  [success |-> success, error |-> error, keys |-> keys, courses |-> <<>>,
   totalCourses |-> -1, found |-> FALSE, courseId |-> <<>>, state |-> <<>>,
   course |-> <<>>, availablePaths |-> <<>>]

NoResult == Result(FALSE, "none", {})

\* the success dict of get_all_courses (lines 123-130)
all_courses_result(normalized_courses) ==
  [Result(TRUE, "", {"success", "data.courses", "data.totalCourses", "data.message"})
     EXCEPT !.courses = normalized_courses,
            !.totalCourses = Len(normalized_courses)]

\* the success dict of get_courses_by_state (lines 185-193)
by_state_result(normalized_courses, state) ==
  [Result(TRUE, "", {"success", "data.courses", "data.totalCourses",
                     "data.state", "data.message"})
     EXCEPT !.courses = normalized_courses,
            !.totalCourses = Len(normalized_courses),
            !.state = state]

\* the success dicts of get_course_details (lines 219-247)
not_found_result(course_id) ==
  [Result(TRUE, "", {"success", "data.courseId", "data.found", "data.message"})
     EXCEPT !.courseId = course_id, !.found = FALSE]

found_result(course_id, item) ==
  [Result(TRUE, "", {"success", "data.courseId", "data.found", "data.course",
                     "data.message"})
     EXCEPT !.courseId = course_id, !.found = TRUE,
            !.course = <<normalize(item)>>]

\* the dict of lines 56-60
unknown_path_result ==
  [Result(FALSE, "Unknown API path", {"success", "error", "availablePaths"})
     EXCEPT !.availablePaths = availablePaths]

NoEnvelope == [httpStatusCode |-> 0, apiPath |-> "none", body |-> NoResult]

\* create_bedrock_response answering 200 whatever the result
create_bedrock_response_always_200(api_path, result) ==
  [httpStatusCode |-> 200, apiPath |-> api_path, body |-> result]

\* create_bedrock_response: 200 if result.get('success', False) else 400
create_bedrock_response(api_path, result) ==
  [httpStatusCode |-> IF result.success THEN 200 ELSE 400,
   apiPath |-> api_path, body |-> result]

\* create_error_response of the CourseQueryService
course_create_error_response(error_message) ==
  [httpStatusCode |-> 500, apiPath |-> "/error",
   body |-> Result(FALSE, error_message, {"success", "error", "details"})]

CourseInit ==
  /\ handler = "course"
  /\ pc = "start"
  /\ outcome = "pending"
  /\ cevent \in CourseEvents
  /\ store \in Stores
  /\ connectFailed = FALSE
  /\ opCalled = "none"
  /\ scanFilter = [on |-> FALSE, state |-> <<>>]
  /\ scanResponse = [called |-> FALSE, hasLEK |-> FALSE, LastEvaluatedKey |-> 0]
  /\ scanLog = <<>>
  /\ courses = <<>>
  /\ gets = 0
  /\ faulted = FALSE
  /\ envelope = NoEnvelope

(***************************************************************************)
(* CourseQueryService: lambda_handler and the query functions              *)
(***************************************************************************)
\* `not state` of line 144 taken to be always false
state_missing_never(params) == FALSE

\* line 143-144: state = params.get('state'); if not state
state_missing(params) == ~params.hasState \/ params.state = <<>>

\* line 206-207: course_id = params.get('courseId'); if not course_id
course_id_missing(params) == ~params.hasCourseId \/ params.courseId = <<>>

\* the items table.get_item(Key={'CourseID': course_id}) can return
get_item(table, course_id) ==
  {table[i] : i \in {j \in 1..Len(table) : table[j].CourseID = course_id}}

\* get_course_details answering a missing record with success False
get_course_details_missing_is_error(table, params, raises) ==
  IF course_id_missing(params)
    THEN Result(FALSE, "courseId parameter is required", {"success", "error"})
  ELSE IF raises
    THEN Result(FALSE, "Failed to get course details", {"success", "error", "function"})
  ELSE IF get_item(table, params.courseId) = {}
    THEN Result(FALSE, "Course not found", {"success", "error"})
  ELSE found_result(params.courseId,
                    CHOOSE it \in get_item(table, params.courseId) : TRUE)

\* get_course_details (lines 203-255); `raises` says whether table.get_item
\* raises
get_course_details(table, params, raises) ==
  IF course_id_missing(params)
    THEN Result(FALSE, "courseId parameter is required", {"success", "error"})
  ELSE IF raises
    THEN Result(FALSE, "Failed to get course details", {"success", "error", "function"})
  ELSE IF get_item(table, params.courseId) = {}
    THEN not_found_result(params.courseId)
  ELSE found_result(params.courseId,
                    CHOOSE it \in get_item(table, params.courseId) : TRUE)

\* lambda_handler returns the envelope `env`
CourseReturn(env) ==
  /\ envelope' = env
  /\ outcome' = "returned"
  /\ pc' = "done"

\* the routing with its else branch falling through to get_all_courses
route_unknown_to_all(api_path) ==
  IF api_path \in {"/getCoursesByState", "/getCompletedCourses",
                   "/getInProgressCourses", "/getNotStartedCourses"}
    THEN "get_courses_by_state"
  ELSE IF api_path = "/getCourseDetails" THEN "get_course_details"
  ELSE "get_all_courses"

\* the function a path routes to (lines 43-60)
route(api_path) ==
  IF api_path = "/getAllCourses" THEN "get_all_courses"
  ELSE IF api_path \in {"/getCoursesByState", "/getCompletedCourses",
                        "/getInProgressCourses", "/getNotStartedCourses"}
    THEN "get_courses_by_state"
  ELSE IF api_path = "/getCourseDetails" THEN "get_course_details"
  ELSE "none"

\* the params the routed function is called with (lines 46-54)
routed_params(api_path, params) ==
  IF api_path = "/getCompletedCourses" THEN StateParams(Completed)
  ELSE IF api_path = "/getInProgressCourses" THEN StateParams(InProgress)
  ELSE IF api_path = "/getNotStartedCourses" THEN StateParams(NotStarted)
  ELSE params

\* lines 19-27: connecting to DynamoDB raises
CourseConnectFails ==
  /\ handler = "course" /\ pc = "start"
  /\ connectFailed' = TRUE
  /\ CourseReturn(course_create_error_response("Database connection failed"))
  /\ UNCHANGED <<handler, cevent, store, opCalled, scanFilter, scanResponse,
                 scanLog, courses, gets, faulted>>
  /\ UNCHANGED routerVars

\* lines 30-33 and 64-77 on an event that is no dict: event.get raises
\* AttributeError in the try block and again in the except clause
CourseBadEvent ==
  /\ handler = "course" /\ pc = "start"
  /\ ~cevent.isDict
  /\ envelope' = NoEnvelope
  /\ outcome' = "raised"
  /\ pc' = "done"
  /\ UNCHANGED <<handler, cevent, store, connectFailed, opCalled, scanFilter,
                 scanResponse, scanLog, courses, gets, faulted>>
  /\ UNCHANGED routerVars

\* lines 29-62 up to the first table.scan call: build params, route, and
\* answer at once whatever needs no scan
CourseDispatch ==
  /\ handler = "course" /\ pc = "start"
  /\ cevent.isDict
  /\ LET built  == build_params(cevent.parameters, 1, EmptyParams)
         path   == cevent.apiPath
         params == routed_params(path, built)
     IN  IF built.raised
           THEN \* KeyError in the loop of lines 37-38, caught at line 64
                /\ CourseReturn(create_bedrock_response(path,
                     Result(FALSE, "Internal error", {"success", "error", "type"})))
                /\ UNCHANGED <<opCalled, scanFilter, gets, faulted>>
         ELSE IF route(path) = "none"
           THEN /\ CourseReturn(create_bedrock_response(path, unknown_path_result))
                /\ UNCHANGED <<opCalled, scanFilter, gets, faulted>>
         ELSE IF route(path) = "get_course_details"
           THEN /\ opCalled' = "get_course_details"
                /\ \E raises \in BOOLEAN :
                     /\ raises => ~course_id_missing(params)
                     /\ faulted' = raises
                     /\ CourseReturn(create_bedrock_response(path,
                          get_course_details(store, params, raises)))
                /\ gets' = IF course_id_missing(params) THEN 0 ELSE 1
                /\ UNCHANGED scanFilter
         ELSE IF route(path) = "get_courses_by_state"
           THEN /\ opCalled' = "get_courses_by_state"
                /\ IF state_missing(params)
                     THEN /\ CourseReturn(create_bedrock_response(path,
                               Result(FALSE, "state parameter is required",
                                      {"success", "error", "validStates"})))
                          /\ UNCHANGED scanFilter
                     ELSE /\ scanFilter' = [on |-> TRUE, state |-> params.state]
                          /\ pc' = "scan"
                          /\ UNCHANGED <<envelope, outcome>>
                /\ UNCHANGED <<gets, faulted>>
         ELSE \* get_all_courses: reading table.table_status may raise
              /\ opCalled' = "get_all_courses"
              /\ \E raises \in BOOLEAN :
                   /\ faulted' = raises
                   /\ IF raises
                        THEN CourseReturn(create_bedrock_response(path,
                               Result(FALSE, "Cannot access MyCourses table",
                                      {"success", "error", "suggestion"})))
                        ELSE /\ pc' = "scan"
                             /\ UNCHANGED <<envelope, outcome>>
              /\ UNCHANGED <<scanFilter, gets>>
  /\ UNCHANGED <<handler, cevent, store, connectFailed, scanResponse, scanLog,
                 courses>>
  /\ UNCHANGED routerVars

\* FilterExpression=Attr('State').eq(state) applied to the items of a page
RECURSIVE apply_filter(_, _)
apply_filter(items, filter) ==
  IF items = <<>> THEN <<>>
  ELSE LET it == Head(items)
           rest == apply_filter(Tail(items), filter)
       IN  IF ~filter.on \/ ("State" \in it.fields /\ it.state = filter.state)
             THEN <<it>> \o rest
             ELSE rest

\* the scanning function answering an empty item list with an error
scan_result_empty_is_error(items, filter) ==
  IF items = <<>>
    THEN Result(FALSE, "No courses found", {"success", "error"})
  ELSE LET normalized_courses == sort_by_course_id(normalize_all(items))
       IN  IF filter.on
             THEN by_state_result(normalized_courses, filter.state)
             ELSE all_courses_result(normalized_courses)

\* the result of the scanning function once its loop has ended: convert,
\* normalise, sort, count (lines 105-130 and 168-193)
scan_result(items, filter) ==
  LET normalized_courses == sort_by_course_id(normalize_all(items))
  IN  IF filter.on
        THEN by_state_result(normalized_courses, filter.state)
        ELSE all_courses_result(normalized_courses)

\* the ExclusiveStartKey of the next table.scan call: none (0) on the
\* first call (lines 97, 154), the previous response's LastEvaluatedKey on
\* every later one (lines 102, 164)
ExclusiveStartKey(last_response) ==
  IF last_response.called THEN last_response.LastEvaluatedKey ELSE 0

\* courses.extend keeping only the page just read
extend_keeps_last_page(acc, items) == items

\* courses = response.get('Items', []) on the first page, courses.extend
\* on every later one (lines 98, 103, 158, 166)
extend(acc, items) == acc \o items

\* what scanLog records of one table.scan call
ScanCall(start, filter, raised, items, more, lek) ==
  [ExclusiveStartKey |-> start, FilterExpression |-> filter,
   raised |-> raised, Items |-> items, hasLEK |-> more,
   LastEvaluatedKey |-> lek]

\* One table.scan call of get_all_courses / get_courses_by_state (lines
\* 97-103 and 154-166).  The first call passes no ExclusiveStartKey; each
\* later one passes the previous response's LastEvaluatedKey.  The table
\* reads `n` items from there and returns those that pass the filter; it
\* returns a LastEvaluatedKey while items remain, and may return one with
\* the last item.  A response without LastEvaluatedKey ends the loop, and
\* the function returns its result in the same step.  A raise is caught
\* by the function's except clause.
CourseScan ==
  /\ handler = "course" /\ pc = "scan"
  /\ LET start == ExclusiveStartKey(scanResponse)
         left  == Len(store) - start
     IN  \/ \* table.scan raises
            /\ scanLog' = Append(scanLog,
                 ScanCall(start, scanFilter, TRUE, <<>>, FALSE, 0))
            /\ faulted' = TRUE
            /\ CourseReturn(create_bedrock_response(cevent.apiPath,
                 Result(FALSE,
                        IF scanFilter.on THEN "Failed to filter courses by state"
                                         ELSE "Failed to retrieve courses",
                        {"success", "error", "function"})))
            /\ UNCHANGED <<scanResponse, courses>>
         \/ \E n \in 0..left, more \in BOOLEAN :
              LET items == apply_filter(SubSeq(store, start + 1, start + n),
                                        scanFilter)
              IN  /\ (left > 0) => (n > 0)
                  /\ (n < left) => more
                  /\ (n = 0) => ~more
                  /\ scanLog' = Append(scanLog,
                       ScanCall(start, scanFilter, FALSE, items, more, start + n))
                  /\ scanResponse' = [called |-> TRUE, hasLEK |-> more,
                                      LastEvaluatedKey |-> start + n]
                  /\ courses' = extend(courses, items)
                  /\ IF more
                       THEN UNCHANGED <<pc, envelope, outcome>>
                       ELSE CourseReturn(create_bedrock_response(cevent.apiPath,
                              scan_result(courses', scanFilter)))
                  /\ UNCHANGED faulted
  /\ UNCHANGED <<handler, cevent, store, connectFailed, opCalled, scanFilter, gets>>
  /\ UNCHANGED routerVars

CourseNext ==
  \/ CourseConnectFails
  \/ CourseBadEvent
  \/ CourseDispatch
  \/ CourseScan

(***************************************************************************)
(* Specification                                                           *)
(***************************************************************************)
RouterIdle ==
  /\ event = NoRouterEvent
  /\ agentIdsBound = TRUE
  /\ parseCalled = FALSE
  /\ validateCalled = FALSE
  /\ classifyCalled = FALSE
  /\ body = NoBody
  /\ prompt = <<>>
  /\ session_id = "none"
  /\ technical = FALSE
  /\ invoked = <<>>
  /\ agentError = "none"
  /\ ai_response = <<>>
  /\ chunks = <<>>
  /\ sawTrace = FALSE
  /\ sawReturnControl = FALSE
  /\ streamRaised = FALSE
  /\ genReturned = FALSE
  /\ genResult = <<>>
  /\ response = NoResponse

CourseIdle ==
  /\ cevent = NoCourseEvent
  /\ store = <<>>
  /\ connectFailed = FALSE
  /\ opCalled = "none"
  /\ scanFilter = [on |-> FALSE, state |-> <<>>]
  /\ scanResponse = [called |-> FALSE, hasLEK |-> FALSE, LastEvaluatedKey |-> 0]
  /\ scanLog = <<>>
  /\ courses = <<>>
  /\ gets = 0
  /\ faulted = FALSE
  /\ envelope = NoEnvelope

Init ==
  \/ RouterInit /\ CourseIdle
  \/ CourseInit /\ RouterIdle

Next == RouterNext \/ CourseNext

Spec == Init /\ [][Next]_vars

\* lambda_handler runs its scan loop to the end: the loop is synchronous
\* code of a running invocation, which makes its next table.scan call
\* whenever one is due
LiveSpec == Spec /\ WF_vars(CourseScan)

(***************************************************************************)
(* Properties: generate_ai_response_with_agent                             *)
(***************************************************************************)
\* the text chunks received, joined in emission order
RECURSIVE ConcatInOrder(_)
ConcatInOrder(texts) ==
  IF texts = <<>> THEN <<>> ELSE Head(texts) \o ConcatInOrder(Tail(texts))

\* the stream yielded at least one text chunk, then raised, and the
\* function has returned
PartialThenFault == genReturned /\ streamRaised /\ Len(chunks) >= 1

\* C1 as stated: a stream that yields at least one text chunk and then
\* raises makes the function return the concatenation of the chunks
\* received, in emission order, trimmed of surrounding whitespace.
C1_PartialTextAsStated ==
  PartialThenFault => genResult = Strip(ConcatInOrder(chunks))

\* C1, amended: a stream that yields at least one text chunk and then
\* raises makes the function return the trimmed concatenation of the chunks
\* received, in emission order, when that concatenation holds a character
\* that is not whitespace; when it is empty or all whitespace the function
\* returns the fallback message.
C1_PartialTextOrFallback ==
  PartialThenFault =>
    genResult = IF Strip(ConcatInOrder(chunks)) # <<>>
                  THEN Strip(ConcatInOrder(chunks))
                  ELSE get_fallback_response

\* two different chunks were received before the fault, and the text
\* returned is their concatenation with whitespace trimmed off
C1_Witness ==
  /\ PartialThenFault
  /\ Len(chunks) = 2
  /\ chunks[1] # chunks[2]
  /\ Strip(chunks[1]) # <<>>
  /\ Strip(chunks[2]) # <<>>
  /\ genResult = Strip(ConcatInOrder(chunks))
  /\ genResult # ConcatInOrder(chunks)

\* C2: a stream that ends normally without any text chunk, and a stream
\* that raises before any text chunk, both make the function return the
\* get_fallback_response string; trace and returnControl events add no text.
C2_FallbackWithoutText ==
  (genReturned /\ agentError = "none" /\ chunks = <<>>) =>
    genResult = get_fallback_response

\* a stream of trace and returnControl events only has ended normally
C2_Witness ==
  /\ genReturned /\ agentError = "none" /\ chunks = <<>>
  /\ ~streamRaised
  /\ sawTrace /\ sawReturnControl
  /\ response.response = get_fallback_response

(***************************************************************************)
(* Properties: CourseQueryService                                          *)
(***************************************************************************)
\* the value the event gives parameter `name`: that of its last element of
\* that name, the empty text if it has none
ParamValue(ev, name) ==
  LET at == {i \in 1..Len(ev.parameters) : ev.parameters[i].name = name}
  IN  IF at = {} THEN <<>>
      ELSE ev.parameters[CHOOSE i \in at : \A j \in at : j <= i].value

CarriesParam(ev, name) ==
  \E i \in 1..Len(ev.parameters) : ev.parameters[i].name = name

WellFormedParams(ev) ==
  \A i \in 1..Len(ev.parameters) : ev.parameters[i].ok

\* a CourseQueryService invocation has ended, the connection was obtained,
\* the parameters were read and no call on the table raised
CourseAnswered ==
  /\ handler = "course" /\ pc = "done"
  /\ cevent.isDict /\ WellFormedParams(cevent)
  /\ ~connectFailed /\ ~faulted

IsEmptyListResult(r) ==
  /\ r.success
  /\ {"data.totalCourses", "data.courses"} \subseteq r.keys
  /\ r.totalCourses = 0
  /\ r.courses = <<>>

\* C3 as stated: with no records in the store, each of the six supported
\* paths (given the parameter it requires) answers success = true,
\* totalCourses = 0 and an empty course sequence.
C3_EmptyStoreAsStated ==
  (/\ CourseAnswered /\ cevent.apiPath \in SupportedPaths /\ store = <<>>
   /\ cevent.apiPath = "/getCoursesByState" => ParamValue(cevent, "state") # <<>>
   /\ cevent.apiPath = "/getCourseDetails" => ParamValue(cevent, "courseId") # <<>>)
  =>
    /\ outcome = "returned"
    /\ IsEmptyListResult(envelope.body)

\* C3, amended: with no records in the store and no fault on the
\* connection or the table, the four paths /getAllCourses,
\* /getCompletedCourses, /getInProgressCourses, /getNotStartedCourses, and
\* /getCoursesByState when it carries a non-empty state, answer
\* success = true, totalCourses = 0 and an empty course sequence;
\* /getCourseDetails with a non-empty courseId answers success = true with
\* found = false and neither totalCourses nor a course sequence;
\* /getCoursesByState without a state and /getCourseDetails without a
\* courseId answer success = false.
C3_EmptyStoreByPath ==
  (CourseAnswered /\ cevent.apiPath \in SupportedPaths /\ store = <<>>) =>
    /\ outcome = "returned"
    /\ LET r == envelope.body
           path == cevent.apiPath
       IN  IF path = "/getCourseDetails"
             THEN IF ParamValue(cevent, "courseId") # <<>>
                    THEN /\ r.success
                         /\ "data.found" \in r.keys /\ ~r.found
                         /\ r.keys \cap {"data.totalCourses", "data.courses"} = {}
                    ELSE ~r.success
           ELSE IF path = "/getCoursesByState" /\ ParamValue(cevent, "state") = <<>>
             THEN ~r.success
           ELSE IsEmptyListResult(r)

\* /getCoursesByState with a state has scanned an empty store and answered
C3_Witness ==
  /\ CourseAnswered /\ store = <<>>
  /\ cevent.apiPath = "/getCoursesByState"
  /\ ParamValue(cevent, "state") = Completed
  /\ scanLog # <<>>
  /\ IsEmptyListResult(envelope.body)
  /\ envelope.httpStatusCode = 200

NamesNoRecord(course_id) ==
  \A i \in 1..Len(store) : store[i].CourseID # course_id

IsNotFoundAnswer ==
  /\ outcome = "returned"
  /\ envelope.body.success
  /\ "data.found" \in envelope.body.keys
  /\ ~envelope.body.found
  /\ envelope.httpStatusCode = 200

\* C4 as stated: every /getCourseDetails invocation whose courseId names no
\* record answers success = true, found = false, with status 200.
C4_MissingRecordAsStated ==
  (/\ CourseAnswered
   /\ cevent.apiPath = "/getCourseDetails"
   /\ CarriesParam(cevent, "courseId")
   /\ NamesNoRecord(ParamValue(cevent, "courseId")))
  => IsNotFoundAnswer

\* C4, amended: every /getCourseDetails invocation whose courseId is not
\* empty and names no record, and whose connection and lookup raise no
\* fault, answers success = true, found = false, with status 200; an empty
\* courseId is answered like a missing one, success = false with status 400.
C4_MissingRecordIsSuccess ==
  (/\ CourseAnswered
   /\ cevent.apiPath = "/getCourseDetails"
   /\ CarriesParam(cevent, "courseId")
   /\ NamesNoRecord(ParamValue(cevent, "courseId")))
  => IF ParamValue(cevent, "courseId") # <<>>
       THEN IsNotFoundAnswer
       ELSE /\ outcome = "returned"
            /\ ~envelope.body.success
            /\ envelope.body.error = "courseId parameter is required"
            /\ envelope.httpStatusCode = 400

\* a lookup in a store that holds records found none under the given id
C4_Witness ==
  /\ CourseAnswered
  /\ cevent.apiPath = "/getCourseDetails"
  /\ store # <<>>
  /\ ParamValue(cevent, "courseId") = <<"C","9">>
  /\ gets = 1
  /\ IsNotFoundAnswer

\* C5: a /getCoursesByState invocation that carries no state parameter is
\* answered, once it has reached get_courses_by_state, with the validation
\* error (success = false, 'state parameter is required', status 400)
\* without any scan of the store; a non-empty state that matches no record
\* is answered with success = true and totalCourses = 0, so the two differ.
C5_MissingStateIsValidationError ==
  (/\ handler = "course" /\ pc = "done"
   /\ cevent.apiPath = "/getCoursesByState"
   /\ opCalled = "get_courses_by_state")
  => /\ ~CarriesParam(cevent, "state") =>
          /\ outcome = "returned"
          /\ ~envelope.body.success
          /\ envelope.body.error = "state parameter is required"
          /\ envelope.httpStatusCode = 400
          /\ scanLog = <<>> /\ gets = 0
     /\ (/\ ParamValue(cevent, "state") # <<>>
         /\ ~faulted
         /\ \A i \in 1..Len(store) :
               ~("State" \in store[i].fields
                 /\ store[i].state = ParamValue(cevent, "state")))
        => /\ outcome = "returned"
           /\ envelope.body.success
           /\ "data.totalCourses" \in envelope.body.keys
           /\ envelope.body.totalCourses = 0
           /\ envelope.httpStatusCode = 200

\* a request without state was refused although the store holds records
C5_Witness ==
  /\ handler = "course" /\ pc = "done"
  /\ cevent.apiPath = "/getCoursesByState"
  /\ opCalled = "get_courses_by_state"
  /\ ~CarriesParam(cevent, "state")
  /\ store # <<>>
  /\ envelope.body.error = "state parameter is required"
  /\ envelope.httpStatusCode = 400

\* C7 as stated: whatever the path, the parameters and the outcome of the
\* connection and of the store, the envelope's httpStatusCode is 200 when
\* the result's success flag is true and 400 otherwise.
C7_StatusAsStated ==
  (handler = "course" /\ outcome = "returned") =>
    envelope.httpStatusCode = IF envelope.body.success THEN 200 ELSE 400

\* C7, amended: the envelope's httpStatusCode is 200 when the result's
\* success flag is true and 400 when it is false, except when connecting to
\* the store fails: that envelope, built by create_error_response, carries
\* success = false, apiPath '/error' and status 500.
C7_StatusFollowsSuccess ==
  (handler = "course" /\ outcome = "returned") =>
    /\ envelope.body.success => envelope.httpStatusCode = 200
    /\ (~envelope.body.success /\ ~connectFailed) => envelope.httpStatusCode = 400
    /\ connectFailed =>
         /\ ~envelope.body.success
         /\ envelope.httpStatusCode = 500
         /\ envelope.apiPath = "/error"

\* a scan raised after a first page and the error went out with status 400
C7_Witness ==
  /\ handler = "course" /\ outcome = "returned"
  /\ faulted /\ Len(scanLog) >= 2
  /\ ~envelope.body.success
  /\ envelope.httpStatusCode = 400

(***************************************************************************)
(* Properties: AgentRouter                                                 *)
(***************************************************************************)
ContainsAnyOf(text, keywords) ==
  \E i \in 1..Len(keywords) : Contains(Lower(text), keywords[i])

\* the topic gate has run on a prompt that holds a non-technical and a
\* technical keyword
MixedPromptClassified ==
  /\ classifyCalled
  /\ ContainsAnyOf(prompt, non_technical_keywords)
  /\ ContainsAnyOf(prompt, technical_keywords)

C8_PreflightShortCircuit ==
  (handler = "router" /\ event.isDict /\ event.httpMethod = "OPTIONS") =>
    /\ ~parseCalled /\ ~validateCalled /\ ~classifyCalled
    /\ invoked = <<>>
    /\ pc = "done" =>
         /\ outcome = "returned"
         /\ response.statusCode = 200
         /\ response.message = "CORS preflight successful"

\* an OPTIONS request with an unparseable body got the acknowledgement
C8_Witness ==
  /\ handler = "router" /\ event.isDict /\ event.httpMethod = "OPTIONS"
  /\ event.bodyKey = "badjson"
  /\ pc = "done"
  /\ response.statusCode = 200

\* the request fails validation in one of the ways C9 lists: body absent or
\* unparseable, prompt missing, prompt empty or blank, prompt too long
\* after trimming, prompt holding an unsafe pattern
FailsValidation(ev) ==
  LET b == parse_request_body(ev)
  IN  \/ b.type = "none"
      \/ ~(b.type = "object" /\ b.hasPrompt)
      \/ /\ b.promptIsStr
         /\ \/ Strip(b.prompt) = <<>>
            \/ Len(Strip(b.prompt)) > MAX_PROMPT_LENGTH
            \/ ContainsAnyOf(Strip(b.prompt), harmful_patterns)

\* C9 as stated, where the agent identifiers are bound: every request that
\* fails validation is answered with status 400 and an error envelope with
\* status 'error', and no agent is invoked for it.
C9_ValidationFailureIs400 ==
  (/\ handler = "router" /\ pc = "done"
   /\ agentIdsBound
   /\ event.isDict /\ event.httpMethod # "OPTIONS"
   /\ FailsValidation(event))
  => /\ outcome = "returned"
     /\ response.statusCode = 400
     /\ response.status = "error"
     /\ invoked = <<>>

\* C10 as stated, for events that are JSON objects: no invocation of either
\* handler lets an exception escape; lambda_handler always returns a
\* response.
C10_NoExceptionEscapes ==
  (/\ pc = "done"
   /\ handler = "router" => event.isDict
   /\ handler = "course" => cevent.isDict)
  => outcome = "returned"

(***************************************************************************)
(* Properties: unknown paths                                               *)
(***************************************************************************)
\* the six paths the service supports
SixPaths ==
  {"/getAllCourses", "/getCoursesByState", "/getCourseDetails",
   "/getCompletedCourses", "/getInProgressCourses", "/getNotStartedCourses"}

ListedPaths(r) == {r.availablePaths[i] : i \in 1..Len(r.availablePaths)}

\* C11: every invocation whose apiPath is none of the six supported paths
\* (the connection obtained and the parameters read) returns, rather than
\* raising or answering with the error envelope, a result with
\* success = false, the 'Unknown API path' error and availablePaths listing
\* exactly the six supported paths, and has called no query function, made
\* no scan and read no record.
C11_UnknownPathIsSoftFailure ==
  (CourseAnswered /\ cevent.apiPath \notin SixPaths) =>
    /\ outcome = "returned"
    /\ envelope.apiPath = cevent.apiPath
    /\ envelope.apiPath # "/error"
    /\ LET r == envelope.body
       IN  /\ ~r.success
           /\ r.error = "Unknown API path"
           /\ r.keys = {"success", "error", "availablePaths"}
           /\ Len(r.availablePaths) = 6
           /\ ListedPaths(r) = SixPaths
    /\ opCalled = "none"
    /\ scanLog = <<>>
    /\ ~scanResponse.called
    /\ gets = 0
    /\ courses = <<>>

\* an unknown path was answered while the store holds records
C11_Witness ==
  /\ CourseAnswered
  /\ cevent.apiPath = "/deleteCourse"
  /\ store # <<>>
  /\ envelope.body.error = "Unknown API path"
  /\ Len(envelope.body.availablePaths) = 6
  /\ envelope.httpStatusCode = 400

(***************************************************************************)
(* Properties: pagination                                                  *)
(***************************************************************************)
RECURSIVE ItemsOfPages(_)
ItemsOfPages(log) ==
  IF log = <<>> THEN <<>> ELSE Head(log).Items \o ItemsOfPages(Tail(log))

CountOf(seq, x) == Cardinality({i \in 1..Len(seq) : seq[i] = x})

SameRecords(a, b) ==
  /\ Len(a) = Len(b)
  /\ \A i \in 1..Len(a) : CountOf(a, a[i]) = CountOf(b, a[i])

\* the first scan passes no start key, and each later one follows a page
\* that carried a LastEvaluatedKey and starts at that key
PagesChained ==
  \A k \in 1..Len(scanLog) :
    IF k = 1 THEN scanLog[k].ExclusiveStartKey = 0
    ELSE /\ ~scanLog[k - 1].raised
         /\ scanLog[k - 1].hasLEK
         /\ scanLog[k].ExclusiveStartKey = scanLog[k - 1].LastEvaluatedKey

\* every scan of the invocation carries the filter of the request: none
\* for list-all, equality with the requested state for list-by-state
SameFilterOnEveryPage ==
  \A k \in 1..Len(scanLog) :
    /\ scanLog[k].FilterExpression.on = (opCalled = "get_courses_by_state")
    /\ scanLog[k].FilterExpression.on =>
         scanLog[k].FilterExpression.state = routed_params(cevent.apiPath,
           build_params(cevent.parameters, 1, EmptyParams)).state

\* the loop is still running only if the last page carried a token, and a
\* list request answered without a fault ended on a page without one and
\* returns the records of all its pages, counted
ScanLoopCollectsAllPages ==
  /\ (handler = "course" /\ pc = "scan" /\ scanLog # <<>>) =>
       scanLog[Len(scanLog)].hasLEK
  /\ (handler = "course" /\ pc = "done" /\ scanLog # <<>> /\ ~faulted) =>
       /\ ~scanLog[Len(scanLog)].hasLEK
       /\ outcome = "returned"
       /\ envelope.body.success
       /\ SameRecords(envelope.body.courses,
                      normalize_all(ItemsOfPages(scanLog)))
       /\ envelope.body.totalCourses = Len(ItemsOfPages(scanLog))

C12_Safety == PagesChained /\ SameFilterOnEveryPage /\ ScanLoopCollectsAllPages

\* C12: in list-all and list-by-state the first scan passes no start key and
\* each later scan starts at the previous page's LastEvaluatedKey, with the
\* same state filter on every page; the loop goes on exactly while the last
\* page carried a LastEvaluatedKey; a loop that has begun ends; and the
\* courses returned are the records of all pages, totalCourses their count.
C12_ScanLoopPaginates ==
  /\ []C12_Safety
  /\ (handler = "course" /\ pc = "scan") ~> (handler = "course" /\ pc = "done")

\* a filtered list request read two pages, the first holding no record of
\* the requested state and the second holding one, and answered with it
C12_Witness ==
  /\ handler = "course" /\ pc = "done" /\ ~faulted
  /\ opCalled = "get_courses_by_state"
  /\ Len(scanLog) = 2
  /\ scanLog[1].Items = <<>> /\ scanLog[1].hasLEK
  /\ scanLog[2].ExclusiveStartKey = 1
  /\ scanLog[2].Items # <<>>
  /\ envelope.body.totalCourses = 1

(***************************************************************************)
(* Properties: agent selection                                             *)
(***************************************************************************)
\* C13: in every AgentRouter execution at most one agent is invoked, and
\* only for a prompt the topic gate has accepted; none is invoked for a
\* prompt the gate rejects; and an execution that ends after the gate
\* accepted its prompt has invoked exactly one agent: the course agent if
\* the lower-cased prompt contains one of the course phrases, the general
\* agent if it contains none.
C13_AgentSelectedAfterGate ==
  handler = "router" =>
    /\ Len(invoked) <= 1
    /\ invoked # <<>> => (classifyCalled /\ technical)
    /\ (classifyCalled /\ ~technical) => (pc = "done" /\ invoked = <<>>)
    /\ (pc = "done" /\ classifyCalled /\ technical) =>
         invoked = << IF ContainsAnyOf(prompt, mycourse_keywords)
                        THEN "course" ELSE "general" >>

\* a prompt with a capitalised course phrase passed the gate and went to
\* the course agent
C13_Witness ==
  /\ handler = "router" /\ pc = "done"
  /\ classifyCalled /\ technical
  /\ prompt = <<"h","i","M","y"," ","C","o","u","r","s","e">>
  /\ invoked = <<"course">>

(***************************************************************************)
(* Properties: service errors of the agent invocation                      *)
(***************************************************************************)
\* C14: whenever invoke_agent raises a service error, whatever its code,
\* generate_ai_response_with_agent returns the fallback text and the handler
\* returns it with status code 200 and status 'success'; nothing of the
\* response but the session id differs between two error codes.
C14_ServiceErrorsCollapse ==
  (handler = "router" /\ agentError \in ClientErrorCodes) =>
    /\ pc = "done" /\ outcome = "returned"
    /\ genReturned
    /\ genResult = get_fallback_response
    /\ chunks = <<>>
    /\ response.statusCode = 200
    /\ response.status = "success"
    /\ response.response = get_fallback_response
    /\ response.error = ""
    /\ response.sessionId = session_id

\* the course agent's invocation was throttled and the fallback went out
C14_Witness ==
  /\ handler = "router" /\ pc = "done"
  /\ agentError = "ThrottlingException"
  /\ invoked = <<"course">>
  /\ response.statusCode = 200
  /\ response.response = get_fallback_response

(***************************************************************************)
(* Properties: the returned course list                                    *)
(***************************************************************************)
\* a list request has been answered with success
ListAnswered ==
  /\ handler = "course" /\ pc = "done" /\ outcome = "returned"
  /\ opCalled \in {"get_all_courses", "get_courses_by_state"}
  /\ envelope.body.success

\* the stored records the request asks for: all of them, or those whose
\* State attribute equals the requested state
RequestedRecords ==
  LET Wanted(it) ==
        scanFilter.on => ("State" \in it.fields /\ it.state = scanFilter.state)
  IN  SelectSeq(store, Wanted)

AscendingByCourseID(seq) ==
  \A i, j \in 1..Len(seq) :
    i < j => ~StrLess(seq[j].CourseID, seq[i].CourseID)

\* the output element `c` is the stored record `it` in the output schema
IsNormalizedFrom(c, it) ==
  /\ DOMAIN c = {"CourseID", "CourseName", "Duration", "State"}
  /\ c.CourseID = it.CourseID
  /\ c.CourseName = IF "Course Name" \in it.fields THEN it.name ELSE ""
  /\ c.Duration = IF "Duration (hours)" \in it.fields
                    THEN [kind |-> "float", v |-> it.duration]
                    ELSE [kind |-> "str", v |-> 0]
  /\ c.State = IF "State" \in it.fields THEN it.state ELSE <<>>

\* C15: every successful list-all or list-by-state result lists its courses
\* in ascending CourseID order under code-point string comparison, holds one
\* element for each stored record the request asks for and no other, and
\* each element has exactly the fields CourseID, CourseName, Duration and
\* State, a field the stored record lacks being the empty string.
C15_SortedNormalizedList ==
  ListAnswered =>
    LET out == envelope.body.courses
        src == RequestedRecords
    IN  /\ AscendingByCourseID(out)
        /\ Len(out) = Len(src)
        /\ \A i \in 1..Len(src) :
             Cardinality({k \in 1..Len(out) : IsNormalizedFrom(out[k], src[i])}) = 1
        /\ \A k \in 1..Len(out) :
             \E i \in 1..Len(src) : IsNormalizedFrom(out[k], src[i])

\* the store holds C2 before C10 and C2 has no name; the answer lists C10
\* first and gives C2 an empty name and an empty duration
C15_Witness ==
  /\ ListAnswered
  /\ opCalled = "get_all_courses"
  /\ Len(store) = 2
  /\ store[1].CourseID = <<"C","2">> /\ store[2].CourseID = <<"C","1","0">>
  /\ envelope.body.courses[1].CourseID = <<"C","1","0">>
  /\ envelope.body.courses[2].CourseID = <<"C","2">>
  /\ envelope.body.courses[2].CourseName = ""
  /\ envelope.body.courses[2].Duration = NoDuration

=============================================================================
